---- MODULE Spec2Model ----
(***************************************************************************)
(* Model of the mojom language server's transport and dispatch layer:      *)
(*   server/src/protocol.rs  header framing, message decoding and writers  *)
(*   server/src/server.rs    handshake, handlers and the main loop         *)
(*                                                                         *)
(* A byte stream is a sequence of strings.  Header bytes are modelled one  *)
(* character per element; a JSON body is modelled one lexical token per    *)
(* element, and a token counts for Len(token) bytes.                       *)
(***************************************************************************)
EXTENDS Integers, Sequences, FiniteSets, TLC

VARIABLES
    pc,          \* position of start(): "init1", "init1_match", "init2", "init2_match",
                 \* "read", "dispatch", "check", "done"
    ctx,         \* Option<ServerContext>: None before `ServerContext::new()`
    message,     \* Option<Message>: the message just read, not yet matched
    reader,      \* bytes the BufReader holds that no read has consumed yet
    nread,       \* number of read_message calls made so far
    output,      \* frames written to (and flushed through) stdout, oldest first
    log,         \* history of reads and writes, in program order
    ret,         \* Option: how start() ended, None while it runs
    hdr_input,   \* header block handed to read_header
    hdr_result,  \* what read_header returned for it
    rt_message,  \* Message handed to write_message
    rt_wire,     \* the bytes write_message emitted for it
    rt_result,   \* what read_message returned for those bytes
    cast_input,  \* a decoded message and the METHOD the caller expects of it
    cast_result  \* what the method / shape check returned for them

vars == <<pc, ctx, message, reader, nread, output, log, ret,
          hdr_input, hdr_result, rt_message, rt_wire, rt_result,
          cast_input, cast_result>>

sessionVars == <<pc, ctx, message, reader, nread, output, log, ret>>
headerVars == <<hdr_input, hdr_result>>
codecVars == <<rt_message, rt_wire, rt_result>>
castVars == <<cast_input, cast_result>>

(***************************************************************************)
(* Bounds of the model.                                                    *)
(***************************************************************************)
MaxHeaderLines == 2   \* header lines before the terminator in a header block
MaxFrames == 4        \* frames the session reads before the model stops
MaxId == 2            \* request ids are drawn from 1..MaxId
MaxWrites == 2        \* frames handed to the writers before the model stops

(***************************************************************************)
(* Option<T> as a sequence of length at most one.                          *)
(***************************************************************************)
None == <<>>
Some(x) == <<x>>
IsSome(o) == o # <<>>
Unwrap(o) == o[1]

RECURSIVE Flatten(_)
Flatten(ss) == IF ss = <<>> THEN <<>> ELSE Head(ss) \o Flatten(Tail(ss))

RECURSIVE ByteLen(_)
ByteLen(bytes) == IF bytes = <<>> THEN 0 ELSE Len(Head(bytes)) + ByteLen(Tail(bytes))

(***************************************************************************)
(* Text helpers of the Rust standard library, as read_header uses them.    *)
(***************************************************************************)
UpperCase == <<"A","B","C","D","E","F","G","H","I","J","K","L","M",
               "N","O","P","Q","R","S","T","U","V","W","X","Y","Z">>
LowerCase == <<"a","b","c","d","e","f","g","h","i","j","k","l","m",
               "n","o","p","q","r","s","t","u","v","w","x","y","z">>
Digits == <<"0","1","2","3","4","5","6","7","8","9">>
WhiteSpace == {" ", "\t", "\r", "\n"}

IndexIn(c, table) ==
    IF \E i \in 1..Len(table) : table[i] = c
    THEN CHOOSE i \in 1..Len(table) : table[i] = c
    ELSE 0

\* a comparison that forgets to fold the case
to_ascii_lowercase_identity(s) == s

\* str::to_ascii_lowercase
to_ascii_lowercase(s) ==
    [i \in 1..Len(s) |->
        IF IndexIn(s[i], UpperCase) # 0 THEN LowerCase[IndexIn(s[i], UpperCase)] ELSE s[i]]

\* str::trim
trim(s) ==
    LET keep == {i \in 1..Len(s) : s[i] \notin WhiteSpace}
    IN  IF keep = {} THEN <<>>
        ELSE SubSeq(s, CHOOSE i \in keep : \A j \in keep : i <= j,
                       CHOOSE i \in keep : \A j \in keep : j <= i)

\* first position of the pattern ": " in s, 0 when there is none
SeparatorAt(s) ==
    LET hits == {i \in 1..(Len(s) - 1) : s[i] = ":" /\ s[i + 1] = " "}
    IN  IF hits = {} THEN 0 ELSE CHOOSE i \in hits : \A j \in hits : i <= j

\* str::split(": ").collect::<Vec<_>>()
RECURSIVE split(_)
split(s) ==
    LET i == SeparatorAt(s)
    IN  IF i = 0 THEN <<s>>
        ELSE <<SubSeq(s, 1, i - 1)>> \o split(SubSeq(s, i + 2, Len(s)))

\* BufRead::read_line: the bytes up to and including the next "\n", or all
\* that is left when the stream ends first
read_line(stream) ==
    LET ends == {i \in 1..Len(stream) : stream[i] = "\n"}
        n == IF ends = {} THEN Len(stream) ELSE CHOOSE i \in ends : \A j \in ends : i <= j
    IN  [line |-> SubSeq(stream, 1, n), rest |-> SubSeq(stream, n + 1, Len(stream))]

\* str::parse::<usize>: an optional "+", then one or more decimal digits whose
\* value fits a usize (64 bits); the overflow is decided on the digits, the
\* way the checked multiply-and-add of the library decides it
USIZE_MAX == <<"1","8","4","4","6","7","4","4","0","7","3","7","0","9","5","5","1","6","1","5">>

RECURSIVE StripZeros(_)
StripZeros(s) == IF Len(s) > 1 /\ Head(s) = "0" THEN StripZeros(Tail(s)) ELSE s

Overflows(s) ==
    LET d == StripZeros(s)
        differ == {i \in 1..Len(d) : d[i] # USIZE_MAX[i]}
        first == CHOOSE i \in differ : \A j \in differ : i <= j
    IN  \/ Len(d) > Len(USIZE_MAX)
        \/ /\ Len(d) = Len(USIZE_MAX)
           /\ differ # {}
           /\ IndexIn(d[first], Digits) > IndexIn(USIZE_MAX[first], Digits)

RECURSIVE DigitsValue(_, _)
DigitsValue(s, acc) ==
    IF s = <<>> THEN Some(acc)
    ELSE DigitsValue(Tail(s), acc * 10 + (IndexIn(Head(s), Digits) - 1))

parse_digits(s) ==
    IF \E i \in 1..Len(s) : IndexIn(s[i], Digits) = 0 THEN None
    ELSE IF Overflows(s) THEN None
    ELSE DigitsValue(s, 0)

parse_usize(s) ==
    IF s = <<>> THEN None
    ELSE IF Len(s) = 1 /\ s[1] \in {"+", "-"} THEN None
    ELSE IF s[1] = "+" THEN parse_digits(Tail(s))
    ELSE parse_digits(s)

\* The Display of a usize, as `write!(writer, "...{}...", content_length)` prints it
RECURSIVE to_decimal(_)
to_decimal(n) ==
    IF n < 10 THEN <<Digits[n + 1]>>
    ELSE to_decimal(n \div 10) \o <<Digits[(n % 10) + 1]>>

(***************************************************************************)
(* protocol.rs: read_header                                                *)
(***************************************************************************)
HeaderOk(n, rest) == [ok |-> TRUE, content_length |-> n, kind |-> "", rest |-> rest]
HeaderErr(kind, rest) == [ok |-> FALSE, content_length |-> 0, kind |-> kind, rest |-> rest]

CONTENT_LENGTH == <<"c","o","n","t","e","n","t","-","l","e","n","g","t","h">>
CRLF == <<"\r", "\n">>
NameContentLength == <<"C","o","n","t","e","n","t","-","L","e","n","g","t","h">>
NameLowerCase == <<"c","o","n","t","e","n","t","-","l","e","n","g","t","h">>
NameMixedCase == <<"C","o","N","t","E","n","T","-","L","e","N","g","T","h">>
NameContentType == <<"C","o","n","t","e","n","t","-","T","y","p","e">>
NameX == <<"X">>
ColonSpace == <<":", " ">>
Colon == <<":">>
LF == <<"\n">>

\* a loop that accepts any line with at least two fields
RECURSIVE read_header_loop_lenient(_, _)
read_header_loop_lenient(stream, content_length) ==
    LET rl == read_line(stream)
        line == rl.line
        header_fields == split(trim(line))
    IN  IF Len(line) = 0 THEN HeaderErr("UnexpectedEof", rl.rest)
        ELSE IF line = CRLF THEN
            IF IsSome(content_length)
            THEN HeaderOk(Unwrap(content_length), rl.rest)
            ELSE HeaderErr("InvalidInput", rl.rest)
        ELSE IF Len(header_fields) < 2 THEN HeaderErr("InvalidInput", rl.rest)
        ELSE IF to_ascii_lowercase(header_fields[1]) = CONTENT_LENGTH THEN
            IF IsSome(parse_usize(header_fields[2]))
            THEN read_header_loop_lenient(rl.rest, parse_usize(header_fields[2]))
            ELSE HeaderErr("InvalidInput", rl.rest)
        ELSE read_header_loop_lenient(rl.rest, content_length)

RECURSIVE read_header_loop(_, _)
read_header_loop(stream, content_length) ==
    LET rl == read_line(stream)
        line == rl.line
        header_fields == split(trim(line))
    IN  IF Len(line) = 0 THEN HeaderErr("UnexpectedEof", rl.rest)
        ELSE IF line = CRLF THEN
            IF IsSome(content_length)
            THEN HeaderOk(Unwrap(content_length), rl.rest)
            ELSE HeaderErr("InvalidInput", rl.rest)
        ELSE IF Len(header_fields) # 2 THEN HeaderErr("InvalidInput", rl.rest)
        ELSE IF to_ascii_lowercase(header_fields[1]) = CONTENT_LENGTH THEN
            IF IsSome(parse_usize(header_fields[2]))
            THEN read_header_loop(rl.rest, parse_usize(header_fields[2]))
            ELSE HeaderErr("InvalidInput", rl.rest)
        ELSE read_header_loop(rl.rest, content_length)

read_header(stream) == read_header_loop(stream, None)

(***************************************************************************)
(* serde_json: a JSON text is a sequence of lexical tokens; a Value is an  *)
(* atom (a scalar, or a params/result subtree the server never opens,      *)
(* held as its text) or an object (its members in source order).           *)
(***************************************************************************)
Atom(text) == [k |-> "atom", a |-> text, o |-> <<>>]
Obj(members) == [k |-> "obj", a |-> "", o |-> members]
Null == Atom("null")

Quote(s) == "\"" \o s \o "\""
Structural == {"{", "}", ":", ","}

\* method names the model's clients use ("$/unknown" stands for any other method)
Methods == {"initialize", "initialized", "shutdown", "exit",
            "textDocument/didOpen", "textDocument/didChange", "$/unknown"}
Messages == {"Unexpected initialize message"}
Strings == Methods \cup Messages \cup {"2.0", "x"}

\* params / result subtrees, as their compact JSON text
ParamsEmpty == "{}"
ParamsInitialize == "{\"capabilities\":{}}"
ParamsDidOpen == "{\"textDocument\":{\"uri\":\"file:///a\",\"languageId\":\"mojom\",\"version\":1,\"text\":\"\"}}"
ParamsDidChange == "{\"textDocument\":{\"uri\":\"file:///a\",\"version\":2},\"contentChanges\":[{\"text\":\"\"}]}"
Capabilities == "{\"capabilities\":{\"textDocumentSync\":{\"openClose\":true,\"change\":1,\"willSave\":true,\"willSaveWaitUntil\":false}}}"
Subtrees == {ParamsEmpty, ParamsInitialize, ParamsDidOpen, ParamsDidChange, Capabilities}

Keys == {"jsonrpc", "id", "method", "params", "result", "error", "code", "message", "data"}

\* integers the model's JSON texts may carry
ErrorCodeValues == {-32700, -32600, -32601, -32602, -32603, -32099, -32000, -32002,
                    -32001, -32800, -32801}
Numbers == (-1..(MaxId + 1)) \cup ErrorCodeValues

Scalars ==
    {"null"} \cup {Quote(s) : s \in Strings} \cup {ToString(n) : n \in Numbers} \cup Subtrees

\* serde_json::to_string of a Value: compact, members in order
RECURSIVE to_string(_)
to_string(v) ==
    IF v.k = "atom" THEN <<v.a>>
    ELSE LET member(i) == <<Quote(v.o[i][1]), ":">> \o to_string(v.o[i][2])
                          \o (IF i < Len(v.o) THEN <<",">> ELSE <<>>)
         IN  <<"{">> \o Flatten([i \in 1..Len(v.o) |-> member(i)]) \o <<"}">>

\* serde_json's parser: [ok, val, next] for the value that starts at toks[i]
ParseFail == [ok |-> FALSE, val |-> Null, next |-> 0]

RECURSIVE ParseValue(_, _)
RECURSIVE ParseMembers(_, _, _)
ParseValue(toks, i) ==
    IF i > Len(toks) THEN ParseFail
    ELSE IF toks[i] = "{" THEN
        IF i + 1 <= Len(toks) /\ toks[i + 1] = "}"
        THEN [ok |-> TRUE, val |-> Obj(<<>>), next |-> i + 2]
        ELSE ParseMembers(toks, i + 1, <<>>)
    ELSE IF toks[i] \in Scalars THEN [ok |-> TRUE, val |-> Atom(toks[i]), next |-> i + 1]
    ELSE ParseFail

ParseMembers(toks, i, acc) ==
    IF i + 1 > Len(toks) THEN ParseFail
    ELSE IF ~(\E key \in Keys : Quote(key) = toks[i]) \/ toks[i + 1] # ":" THEN ParseFail
    ELSE LET key == CHOOSE kk \in Keys : Quote(kk) = toks[i]
             r == ParseValue(toks, i + 2)
         IN  IF ~r.ok \/ r.next > Len(toks) THEN ParseFail
             ELSE IF toks[r.next] = "}"
                  THEN [ok |-> TRUE, val |-> Obj(Append(acc, <<key, r.val>>)), next |-> r.next + 1]
             ELSE IF toks[r.next] = ","
                  THEN ParseMembers(toks, r.next + 1, Append(acc, <<key, r.val>>))
             ELSE ParseFail

\* serde_json::from_slice::<Value>: one value and nothing after it
from_slice_value(buf) ==
    LET r == ParseValue(buf, 1)
    IN  IF r.ok /\ r.next = Len(buf) + 1 THEN Some(r.val) ELSE None

\* the member `key` of an object, None when the key is absent
Field(v, key) ==
    LET hits == {i \in 1..Len(v.o) : v.o[i][1] = key}
    IN  IF hits = {} THEN None ELSE Some(v.o[CHOOSE i \in hits : \A j \in hits : i <= j][2])

\* serde's Deserialize for the field types of the message structs
de_u64(v) ==
    IF v.k = "atom" /\ \E n \in Numbers : n >= 0 /\ ToString(n) = v.a
    THEN Some(CHOOSE n \in Numbers : n >= 0 /\ ToString(n) = v.a)
    ELSE None

de_i32(v) ==
    IF v.k = "atom" /\ \E n \in Numbers : ToString(n) = v.a
    THEN Some(CHOOSE n \in Numbers : ToString(n) = v.a)
    ELSE None

de_String(v) ==
    IF v.k = "atom" /\ \E str \in Strings : Quote(str) = v.a
    THEN Some(CHOOSE str \in Strings : Quote(str) = v.a)
    ELSE None

\* Option<T>: an absent key and a null both give None
IsNullOrAbsent(f) == f = None \/ Unwrap(f) = Null

(***************************************************************************)
(* protocol.rs: the message model                                          *)
(***************************************************************************)
RequestMessage(id, method, params) ==
    [variant |-> "Request", id |-> id, method |-> method, params |-> params]
ResponseMessage(id, result, error) ==
    [variant |-> "Response", id |-> id, result |-> result, error |-> error]
NotificationMessage(method, params) ==
    [variant |-> "Notofication", method |-> method, params |-> params]

ResponseError(code, msg, data) == [code |-> code, message |-> msg, data |-> data]

\* impl From<ErrorCodes> for i32
ErrorCodes ==
    [ParseError |-> -32700,
     InvalidRequest |-> -32600,
     MethodNotFound |-> -32601,
     InvalidParams |-> -32602,
     InternalError |-> -32603,
     serverErrorStart |-> -32099,
     serverErrorEnd |-> -32000,
     ServerNotInitialized |-> -32002,
     UnknownErrorCode |-> -32001,
     RequestCancelled |-> -32800,
     ContentModified |-> -32801]

\* ResponseError::new
ResponseError_new(code, msg) == ResponseError(ErrorCodes[code], msg, None)

\* #[derive(Deserialize)] struct ResponseError
de_ResponseError(v) ==
    IF v.k # "obj" THEN None
    ELSE LET code == Field(v, "code")
             msg == Field(v, "message")
             data == Field(v, "data")
         IN  IF code = None \/ msg = None THEN None
             ELSE IF de_i32(Unwrap(code)) = None \/ de_String(Unwrap(msg)) = None THEN None
             ELSE Some(ResponseError(Unwrap(de_i32(Unwrap(code))),
                                     Unwrap(de_String(Unwrap(msg))),
                                     IF IsNullOrAbsent(data) THEN None ELSE data))

\* #[derive(Deserialize)] struct RequestMessage: all three keys are required
de_RequestMessage(v) ==
    IF v.k # "obj" THEN None
    ELSE LET id == Field(v, "id")
             method == Field(v, "method")
             params == Field(v, "params")
         IN  IF id = None \/ method = None \/ params = None THEN None
             ELSE IF de_u64(Unwrap(id)) = None \/ de_String(Unwrap(method)) = None THEN None
             ELSE Some(RequestMessage(Unwrap(de_u64(Unwrap(id))),
                                      Unwrap(de_String(Unwrap(method))),
                                      Unwrap(params)))

\* #[derive(Deserialize)] struct ResponseMessage: `id` required, the two Options not
de_ResponseMessage(v) ==
    IF v.k # "obj" THEN None
    ELSE LET id == Field(v, "id")
             result == Field(v, "result")
             error == Field(v, "error")
         IN  IF id = None THEN None
             ELSE IF de_u64(Unwrap(id)) = None THEN None
             ELSE IF ~IsNullOrAbsent(error) /\ de_ResponseError(Unwrap(error)) = None THEN None
             ELSE Some(ResponseMessage(Unwrap(de_u64(Unwrap(id))),
                                       IF IsNullOrAbsent(result) THEN None ELSE result,
                                       IF IsNullOrAbsent(error) THEN None
                                       ELSE de_ResponseError(Unwrap(error))))

\* #[derive(Deserialize)] struct NotificationMessage
de_NotificationMessage(v) ==
    IF v.k # "obj" THEN None
    ELSE LET method == Field(v, "method")
             params == Field(v, "params")
         IN  IF method = None \/ params = None THEN None
             ELSE IF de_String(Unwrap(method)) = None THEN None
             ELSE Some(NotificationMessage(Unwrap(de_String(Unwrap(method))), Unwrap(params)))

\* an enum whose variants are declared Response first
de_Message_response_first(v) ==
    IF IsSome(de_ResponseMessage(v)) THEN de_ResponseMessage(v)
    ELSE IF IsSome(de_RequestMessage(v)) THEN de_RequestMessage(v)
    ELSE de_NotificationMessage(v)

\* #[serde(untagged)] enum Message: the first variant that deserializes wins
de_Message(v) ==
    IF IsSome(de_RequestMessage(v)) THEN de_RequestMessage(v)
    ELSE IF IsSome(de_ResponseMessage(v)) THEN de_ResponseMessage(v)
    ELSE de_NotificationMessage(v)

\* Message::from_slice
Message_from_slice(buf) ==
    IF from_slice_value(buf) = None THEN None ELSE de_Message(Unwrap(from_slice_value(buf)))

\* #[derive(Serialize)]: the fields in declaration order, None skipped where
\* skip_serializing_if says so
OptionalMember(key, o) == IF o = None THEN <<>> ELSE <<<<key, Unwrap(o)>>>>

ser_ResponseError(e) ==
    Obj(<<<<"code", Atom(ToString(e.code))>>, <<"message", Atom(Quote(e.message))>>>>
        \o OptionalMember("data", e.data))

ser_Message(m) ==
    IF m.variant = "Request" THEN
        Obj(<<<<"id", Atom(ToString(m.id))>>, <<"method", Atom(Quote(m.method))>>,
              <<"params", m.params>>>>)
    ELSE IF m.variant = "Response" THEN
        Obj(<<<<"id", Atom(ToString(m.id))>>>>
            \o OptionalMember("result", m.result)
            \o OptionalMember("error",
                   IF m.error = None THEN None ELSE Some(ser_ResponseError(Unwrap(m.error)))))
    ELSE Obj(<<<<"method", Atom(Quote(m.method))>>, <<"params", m.params>>>>)

JsonRpcResponseMessage(id, result, error) ==
    [jsonrpc |-> "2.0", id |-> id, result |-> result, error |-> error]

ser_JsonRpcResponseMessage(m) ==
    Obj(<<<<"jsonrpc", Atom(Quote(m.jsonrpc))>>, <<"id", Atom(ToString(m.id))>>>>
        \o OptionalMember("result", m.result)
        \o OptionalMember("error",
               IF m.error = None THEN None ELSE Some(ser_ResponseError(Unwrap(m.error)))))

(***************************************************************************)
(* protocol.rs: read_message and write_message                             *)
(***************************************************************************)
Ok(x) == [ok |-> TRUE, val |-> x, err |-> ""]
Err(e) == [ok |-> FALSE, val |-> None, err |-> e]

\* Read::read_exact for `n` bytes: the longest run of whole elements within n
\* bytes; a cut inside an element leaves a partial token in the buffer
Partial == "<cut>"

\* a read that is content with the bytes there are, as Read::read is
read_exact_available(stream, n) ==
    LET fits == {k \in 0..Len(stream) : ByteLen(SubSeq(stream, 1, k)) <= n}
        k == CHOOSE kk \in fits : \A j \in fits : j <= kk
        got == SubSeq(stream, 1, k)
    IN  IF ByteLen(got) = n \/ k = Len(stream)
        THEN [ok |-> TRUE, buf |-> got, rest |-> SubSeq(stream, k + 1, Len(stream))]
        ELSE [ok |-> TRUE, buf |-> Append(got, Partial),
              rest |-> <<Partial>> \o SubSeq(stream, k + 2, Len(stream))]

read_exact(stream, n) ==
    LET fits == {k \in 0..Len(stream) : ByteLen(SubSeq(stream, 1, k)) <= n}
        k == CHOOSE kk \in fits : \A j \in fits : j <= kk
        got == SubSeq(stream, 1, k)
    IN  IF ByteLen(got) = n
        THEN [ok |-> TRUE, buf |-> got, rest |-> SubSeq(stream, k + 1, Len(stream))]
        ELSE IF k = Len(stream) THEN [ok |-> FALSE, buf |-> got, rest |-> <<>>]
        ELSE [ok |-> TRUE, buf |-> Append(got, Partial),
              rest |-> <<Partial>> \o SubSeq(stream, k + 2, Len(stream))]

\* read_message: [res, rest], rest being what the reader has not consumed
read_message(stream) ==
    LET header == read_header(stream)
        body == read_exact(header.rest, header.content_length)
    IN  IF ~header.ok THEN [res |-> Err(header.kind), rest |-> header.rest]
        ELSE IF ~body.ok THEN [res |-> Err("UnexpectedEof"), rest |-> body.rest]
        ELSE IF Message_from_slice(body.buf) = None
             THEN [res |-> Err("Failed to parse message"), rest |-> body.rest]
        ELSE [res |-> Ok(Unwrap(Message_from_slice(body.buf))), rest |-> body.rest]

\* BufWriter<Stdout>: `buf` is held back by the writer, `out` has reached stdout
BufWriter_new == [buf |-> <<>>, out |-> <<>>]

\* one call on the writer: write! and write_all buffer their bytes, flush
\* hands the buffer on
BufWriter_call(w, c) ==
    IF c.call = "flush" THEN [buf |-> <<>>, out |-> w.out \o w.buf]
    ELSE [buf |-> w.buf \o c.bytes, out |-> w.out]

RECURSIVE BufWriter_run(_, _)
BufWriter_run(w, calls) ==
    IF calls = <<>> THEN w ELSE BufWriter_run(BufWriter_call(w, Head(calls)), Tail(calls))

\* a write_message that returns without flushing
write_message_calls_unflushed(body) ==
    LET msg == to_string(body)
        content_length == ByteLen(msg)
    IN  <<[call |-> "write",
           bytes |-> NameContentLength \o ColonSpace \o to_decimal(content_length)
                     \o CRLF \o CRLF],
          [call |-> "write_all", bytes |-> msg]>>

\* write_message: the calls it makes on the writer for a serialized body
write_message_calls(body) ==
    LET msg == to_string(body)
        content_length == ByteLen(msg)
    IN  <<[call |-> "write",
           bytes |-> NameContentLength \o ColonSpace \o to_decimal(content_length)
                     \o CRLF \o CRLF],
          [call |-> "write_all", bytes |-> msg],
          [call |-> "flush", bytes |-> <<>>]>>

\* write_message: the bytes that have reached stdout when it returns (the
\* buffer is empty when it is called: every earlier call flushed)
write_message(body) == BufWriter_run(BufWriter_new, write_message_calls(body)).out

\* write_success_response and write_error_response
write_success_response(id, result) ==
    write_message(ser_JsonRpcResponseMessage(JsonRpcResponseMessage(id, Some(result), None)))

write_error_response(id, error) ==
    write_message(ser_JsonRpcResponseMessage(JsonRpcResponseMessage(id, None, Some(error))))

\* write_success_result: serde_json::to_value, then write_success_response
write_success_result(id, res) == write_success_response(id, res)

JsonRpcNotificationMessage(method, params) ==
    [jsonrpc |-> "2.0", method |-> method, params |-> params]

ser_JsonRpcNotificationMessage(m) ==
    Obj(<<<<"jsonrpc", Atom(Quote(m.jsonrpc))>>, <<"method", Atom(Quote(m.method))>>,
          <<"params", m.params>>>>)

write_notification(method, params) ==
    write_message(ser_JsonRpcNotificationMessage(JsonRpcNotificationMessage(method, params)))

(***************************************************************************)
(* protocol.rs: the method / shape check.  `shape` is the expected METHOD; *)
(* from_value into its Params type is lsp_types' and is modelled by the    *)
(* set of params subtrees that decode into that type.                      *)
(***************************************************************************)
from_value(shape, params) ==
    /\ params.k = "atom"
    /\ params.a \in
         (IF shape = "initialize" THEN {ParamsInitialize}
          ELSE IF shape = "initialized" THEN Subtrees
          ELSE IF shape = "textDocument/didOpen" THEN {ParamsDidOpen}
          ELSE IF shape = "textDocument/didChange" THEN {ParamsDidChange}
          ELSE IF shape \in {"shutdown", "exit"} THEN {"null"}
          ELSE {})

\* a shape check that forgets to compare the method
into_request_id_params_any_method(req, METHOD) ==
    IF ~from_value(METHOD, req.params) THEN Err("Failed to parse params")
    ELSE Ok([id |-> req.id, params |-> req.params])

into_request_id_params(req, METHOD) ==
    IF req.method # METHOD THEN Err("Expected method")
    ELSE IF ~from_value(METHOD, req.params) THEN Err("Failed to parse params")
    ELSE Ok([id |-> req.id, params |-> req.params])

\* a shape check that forgets to compare the method
into_notification_params_any_method(notif, METHOD) ==
    IF ~from_value(METHOD, notif.params) THEN Err("Failed to parse params")
    ELSE Ok(notif.params)

into_notification_params(notif, METHOD) ==
    IF notif.method # METHOD THEN Err("Expected method")
    ELSE IF ~from_value(METHOD, notif.params) THEN Err("Failed to parse params")
    ELSE Ok(notif.params)

\* server.rs: get_params, the shape decode without the method check
get_params(shape, params) ==
    IF from_value(shape, params) THEN Ok(params) ELSE Err("Failed to parse params")

(***************************************************************************)
(* server.rs: ServerContext and the handlers                               *)
(***************************************************************************)
\* a constructor that starts the session in the wrong state
ServerContext_new_shutting_down == [state |-> "ShuttingDown", exit_code |-> None]

ServerContext_new == [state |-> "Initialized", exit_code |-> None]

create_server_capabilities == Atom(Capabilities)

\* MessageResult<Value>
MessageOk(v) == [ok |-> TRUE, val |-> v, error |-> None]
MessageErr(e) == [ok |-> FALSE, val |-> Null, error |-> Some(e)]

\* a handler that reports the request as merely invalid
initialize_request_invalid ==
    MessageErr(ResponseError_new("InvalidRequest", "Unexpected initialize message"))

initialize_request ==
    MessageErr(ResponseError_new("ServerNotInitialized", "Unexpected initialize message"))

\* a handler that refuses a second shutdown
shutdown_request_once(c) ==
    IF c.state = "ShuttingDown"
    THEN [ctx |-> c,
          res |-> MessageErr(ResponseError_new("InvalidRequest", "Unexpected initialize message"))]
    ELSE [ctx |-> [c EXCEPT !.state = "ShuttingDown"], res |-> MessageOk(Null)]

\* a handler that ends the session on shutdown
shutdown_request_exiting(c) ==
    [ctx |-> [c EXCEPT !.state = "ShuttingDown", !.exit_code = Some(0)],
     res |-> MessageOk(Null)]

\* shutdown_request: [ctx, res]
shutdown_request(c) ==
    [ctx |-> [c EXCEPT !.state = "ShuttingDown"], res |-> MessageOk(Null)]

\* a handler that exits gracefully whatever the state
exit_notification_always_zero(c) ==
    [ctx |-> [c EXCEPT !.exit_code = Some(0)], res |-> Ok(None)]

\* exit_notification: [ctx, res]
exit_notification(c) ==
    [ctx |-> IF c.state = "ShuttingDown"
             THEN [c EXCEPT !.exit_code = Some(0)]
             ELSE [c EXCEPT !.exit_code = Some(1)],
     res |-> Ok(None)]

did_open_text_document(params) == Ok(None)

did_change_text_document(params) == Ok(None)

\* a dispatcher that forgets the `Err` arm: an error result is not written
handle_request_silent_error(c, msg) ==
    LET id == msg.id
        known == msg.method \in {"initialize", "shutdown"}
        out == IF msg.method = "initialize"
               THEN [ctx |-> c, res |-> initialize_request]
               ELSE shutdown_request(c)
    IN  IF ~known THEN [panic |-> TRUE, ctx |-> c, written |-> <<>>, res |-> Ok(None)]
        ELSE [panic |-> FALSE,
              ctx |-> out.ctx,
              written |-> IF out.res.ok
                          THEN <<write_success_response(id, out.res.val)>>
                          ELSE <<>>,
              res |-> Ok(None)]

\* a dispatcher with a MethodNotFound reply in place of `unimplemented!()`
handle_request_method_not_found(c, msg) ==
    LET id == msg.id
        known == msg.method \in {"initialize", "shutdown"}
        out == IF msg.method = "initialize"
               THEN [ctx |-> c, res |-> initialize_request]
               ELSE IF msg.method = "shutdown" THEN shutdown_request(c)
               ELSE [ctx |-> c,
                     res |-> MessageErr(ResponseError_new("MethodNotFound",
                                                          "Unexpected initialize message"))]
    IN  [panic |-> FALSE,
         ctx |-> out.ctx,
         written |-> IF out.res.ok
                     THEN <<write_success_response(id, out.res.val)>>
                     ELSE <<write_error_response(id, Unwrap(out.res.error))>>,
         res |-> Ok(None)]

\* handle_request: [panic, ctx, written, res]; `written` are the frames it wrote
handle_request(c, msg) ==
    LET id == msg.id
        known == msg.method \in {"initialize", "shutdown"}
        out == IF msg.method = "initialize"
               THEN [ctx |-> c, res |-> initialize_request]
               ELSE shutdown_request(c)
    IN  IF ~known THEN [panic |-> TRUE, ctx |-> c, written |-> <<>>, res |-> Ok(None)]
        ELSE [panic |-> FALSE,
              ctx |-> out.ctx,
              written |-> IF out.res.ok
                          THEN <<write_success_response(id, out.res.val)>>
                          ELSE <<write_error_response(id, Unwrap(out.res.error))>>,
              res |-> Ok(None)]

\* a dispatcher that answers a notification whose params do not decode
handle_notification_replying(c, msg) ==
    IF msg.method = "exit"
    THEN [panic |-> FALSE, ctx |-> exit_notification(c).ctx, written |-> <<>>,
          res |-> exit_notification(c).res]
    ELSE IF msg.method \in {"textDocument/didOpen", "textDocument/didChange"}
    THEN [panic |-> FALSE, ctx |-> c,
          written |-> IF get_params(msg.method, msg.params).ok THEN <<>>
                      ELSE <<write_error_response(0,
                                ResponseError_new("InvalidParams", "Unexpected initialize message"))>>,
          res |-> IF get_params(msg.method, msg.params).ok
                  THEN Ok(None)
                  ELSE get_params(msg.method, msg.params)]
    ELSE [panic |-> TRUE, ctx |-> c, written |-> <<>>, res |-> Ok(None)]

\* handle_notification: [panic, ctx, written, res]
handle_notification(c, msg) ==
    IF msg.method = "exit"
    THEN [panic |-> FALSE, ctx |-> exit_notification(c).ctx, written |-> <<>>,
          res |-> exit_notification(c).res]
    ELSE IF msg.method = "textDocument/didOpen"
    THEN [panic |-> FALSE, ctx |-> c, written |-> <<>>,
          res |-> IF get_params(msg.method, msg.params).ok
                  THEN did_open_text_document(get_params(msg.method, msg.params).val)
                  ELSE get_params(msg.method, msg.params)]
    ELSE IF msg.method = "textDocument/didChange"
    THEN [panic |-> FALSE, ctx |-> c, written |-> <<>>,
          res |-> IF get_params(msg.method, msg.params).ok
                  THEN did_change_text_document(get_params(msg.method, msg.params).val)
                  ELSE get_params(msg.method, msg.params)]
    ELSE [panic |-> TRUE, ctx |-> c, written |-> <<>>, res |-> Ok(None)]

(***************************************************************************)
(* Header blocks handed to read_header: up to MaxHeaderLines lines, each   *)
(* `name sep value term`, followed by the way the block ends.              *)
(***************************************************************************)

\* 10^20, one more digit than a usize can hold
TooLarge == <<"1","0","0","0","0","0","0","0","0","0","0","0","0","0","0","0","0","0","0","0","0">>

HeaderLine(name, sep, value, term) == [name |-> name, sep |-> sep, value |-> value, term |-> term]

HeaderLines ==
    { HeaderLine(NameContentLength, ColonSpace, <<"7">>, CRLF),
      HeaderLine(NameLowerCase, ColonSpace, <<"4","2">>, CRLF),
      HeaderLine(NameMixedCase, ColonSpace, <<"0">>, CRLF),
      HeaderLine(NameContentType, ColonSpace, <<"a">>, CRLF),
      HeaderLine(NameX, ColonSpace, <<"1",":"," ","2">>, CRLF),
      HeaderLine(NameContentLength, Colon, <<"7">>, CRLF),
      HeaderLine(NameX, <<>>, <<>>, CRLF),
      HeaderLine(NameContentLength, ColonSpace, <<"4","x">>, CRLF),
      HeaderLine(NameContentLength, ColonSpace, <<"-","1">>, CRLF),
      HeaderLine(NameContentLength, ColonSpace, <<"+","5">>, CRLF),
      HeaderLine(NameContentLength, ColonSpace, TooLarge, CRLF),
      HeaderLine(NameContentLength, ColonSpace, <<"7">>, <<>>),
      HeaderLine(NameLowerCase, ColonSpace, <<"4","2">>, LF) }

\* how a block ends: the blank line, end of stream, a bare LF, a CR cut off by end of stream
HeaderEndings == {CRLF, <<>>, LF, <<"\r">>}

SeqsUpTo(S, n) == UNION {[1..k -> S] : k \in 0..n}

HeaderInputs == [lines : SeqsUpTo(HeaderLines, MaxHeaderLines), ending : HeaderEndings]

LineText(l) == l.name \o l.sep \o l.value \o l.term

StreamOf(input) ==
    Flatten([i \in 1..Len(input.lines) |-> LineText(input.lines[i])]) \o input.ending

(***************************************************************************)
(* Specification of read_header as a function of its input.                *)
(***************************************************************************)
SessionIdle ==
    /\ pc = "idle"
    /\ ctx = None
    /\ message = None
    /\ reader = <<>>
    /\ nread = 0
    /\ output = <<>>
    /\ log = <<>>
    /\ ret = None

HeaderIdle == hdr_input = [lines |-> <<>>, ending |-> <<>>] /\ hdr_result = None

CodecIdle == rt_message = None /\ rt_wire = <<>> /\ rt_result = None

CastIdle == cast_input = None /\ cast_result = None

InitHeader ==
    /\ hdr_input \in HeaderInputs
    /\ hdr_result = None
    /\ SessionIdle
    /\ CodecIdle
    /\ CastIdle

ReadHeader ==
    /\ hdr_result = None
    /\ hdr_result' = Some(read_header(StreamOf(hdr_input)))
    /\ UNCHANGED <<hdr_input, sessionVars, codecVars, castVars>>

NextHeader == ReadHeader

SpecHeader == InitHeader /\ [][NextHeader]_vars

(***************************************************************************)
(* What the client may put on stdin: one frame per read.                   *)
(***************************************************************************)
Ids == 1..MaxId
RequestParams == {Null, Atom(ParamsInitialize)}
NotificationParams == {Null, Atom(ParamsInitialize), Atom(ParamsDidOpen), Atom(ParamsDidChange)}

ClientRequest(id, method, params) ==
    Obj(<<<<"jsonrpc", Atom(Quote("2.0"))>>, <<"id", Atom(ToString(id))>>,
          <<"method", Atom(Quote(method))>>, <<"params", params>>>>)

ClientNotification(method, params) ==
    Obj(<<<<"jsonrpc", Atom(Quote("2.0"))>>, <<"method", Atom(Quote(method))>>,
          <<"params", params>>>>)

ClientResponse(id, result) ==
    Obj(<<<<"jsonrpc", Atom(Quote("2.0"))>>, <<"id", Atom(ToString(id))>>,
          <<"result", result>>>>)

ClientPayloads ==
    {ClientRequest(id, m, p) : id \in Ids, m \in Methods, p \in RequestParams}
    \cup {ClientNotification(m, p) : m \in Methods, p \in NotificationParams}
    \cup {ClientResponse(id, r) : id \in Ids, r \in {Null, Atom(ParamsEmpty)}}
    \cup {Obj(<<<<"id", Atom("1")>>, <<"method", Atom(Quote("shutdown"))>>>>),
          Obj(<<<<"id", Atom(Quote("x"))>>, <<"method", Atom(Quote("exit"))>>,
                <<"params", Null>>>>),
          Obj(<<<<"id", Atom("-1")>>, <<"method", Atom(Quote("shutdown"))>>,
                <<"params", Null>>>>),
          Obj(<<>>)}

\* a frame as a conforming client writes it
ClientFrame(payload) == write_message(payload)

\* frames that break the framing: a body cut short by the end of the stream,
\* a header block without Content-Length, a body that is not JSON, a body
\* longer than its Content-Length, and the end of the stream
TruncatedFrame ==
    NameContentLength \o ColonSpace \o <<"5","0">> \o CRLF \o CRLF \o <<"{", "\"id\"", ":">>
NoLengthFrame == NameContentType \o ColonSpace \o <<"a">> \o CRLF \o CRLF
GarbageFrame == NameContentLength \o ColonSpace \o <<"2">> \o CRLF \o CRLF \o <<"}", "{">>
OverlongFrame ==
    ClientFrame(ClientRequest(1, "shutdown", Null)) \o <<"junk">>
EndOfStream == <<>>

\* client frames whose last body token never arrives
CutFrames ==
    {SubSeq(ClientFrame(payload), 1, Len(ClientFrame(payload)) - 1) :
        payload \in {ClientRequest(1, "initialize", Atom(ParamsInitialize)),
                     ClientNotification("initialized", Atom(ParamsInitialize)),
                     ClientRequest(1, "shutdown", Null),
                     ClientNotification("exit", Null)}}

BrokenFrames ==
    {TruncatedFrame, NoLengthFrame, GarbageFrame, OverlongFrame, EndOfStream} \cup CutFrames

InputFrames == {ClientFrame(payload) : payload \in ClientPayloads} \cup BrokenFrames

(***************************************************************************)
(* server.rs: start() and initialize(), one action per step                *)
(***************************************************************************)
Returned(code) == [kind |-> "Ok", code |-> code, err |-> ""]
Failed(e) == [kind |-> "Err", code |-> -1, err |-> e]
Panicked == [kind |-> "panic", code |-> -1, err |-> "not implemented"]

\* the bytes a read has to read from end before the payload their header
\* block announces is complete
Truncated(input) ==
    /\ read_header(input).ok
    /\ ByteLen(read_header(input).rest) < read_header(input).content_length

\* what the history keeps of a read: whether the stream ended inside the
\* payload, which message came, its id and method
ReadEvent(n, res, input) ==
    [op |-> "read", n |-> n, short |-> Truncated(input),
     kind |-> IF res.ok THEN res.val.variant ELSE "error",
     id |-> IF res.ok /\ res.val.variant \in {"Request", "Response"} THEN res.val.id ELSE 0,
     method |-> IF res.ok /\ res.val.variant \in {"Request", "Notofication"}
                THEN res.val.method ELSE ""]
\* and of a write: the position of the frame in `output`
WriteEvent(n) ==
    [op |-> "write", n |-> n, short |-> FALSE, kind |-> "", id |-> 0, method |-> ""]
WriteEvents(from, count) == [i \in 1..count |-> WriteEvent(from + i)]

InitSession ==
    /\ pc = "init1"
    /\ ctx = None
    /\ message = None
    /\ reader = <<>>
    /\ nread = 0
    /\ output = <<>>
    /\ log = <<>>
    /\ ret = None

Init ==
    /\ InitSession
    /\ HeaderIdle
    /\ CodecIdle
    /\ CastIdle

\* where start() goes once the message read at `pc` is in hand
AfterRead(at) ==
    IF at = "init1" THEN "init1_match" ELSE IF at = "init2" THEN "init2_match" ELSE "dispatch"

\* `let message = read_message(reader)?;` in initialize() (twice) and in the loop
ReadMessage ==
    /\ pc \in {"init1", "init2", "read"}
    /\ nread < MaxFrames
    /\ \E f \in InputFrames :
        LET r == read_message(reader \o f)
        IN  /\ reader' = r.rest
            /\ nread' = nread + 1
            /\ log' = Append(log, ReadEvent(nread + 1, r.res, reader \o f))
            /\ IF r.res.ok
               THEN /\ message' = Some(r.res.val)
                    /\ pc' = AfterRead(pc)
                    /\ ret' = ret
               ELSE /\ message' = message
                    /\ pc' = "done"
                    /\ ret' = Some(Failed(r.res.err))
    /\ UNCHANGED <<ctx, output, headerVars, codecVars, castVars>>

\* an initialize() that replies to the first request before it checks it
InitializeRequestReplyFirst ==
    /\ pc = "init1_match"
    /\ LET msg == Unwrap(message)
           cast == into_request_id_params(msg, "initialize")
       IN  IF msg.variant # "Request" THEN
               /\ ret' = Some(Failed("Expected initialize message"))
               /\ pc' = "done"
               /\ UNCHANGED <<output, log>>
           ELSE
               /\ output' = Append(output,
                                   write_success_result(msg.id, create_server_capabilities))
               /\ log' = Append(log, WriteEvent(Len(output) + 1))
               /\ IF cast.ok THEN ret' = ret /\ pc' = "init2"
                  ELSE ret' = Some(Failed(cast.err)) /\ pc' = "done"
    /\ message' = None
    /\ UNCHANGED <<ctx, reader, nread, headerVars, codecVars, castVars>>

\* initialize(): the first message must be the `initialize` request; reply to it
InitializeRequest ==
    /\ pc = "init1_match"
    /\ LET msg == Unwrap(message)
           cast == into_request_id_params(msg, "initialize")
       IN  IF msg.variant # "Request" THEN
               /\ ret' = Some(Failed("Expected initialize message"))
               /\ pc' = "done"
               /\ UNCHANGED <<output, log>>
           ELSE IF ~cast.ok THEN
               /\ ret' = Some(Failed(cast.err))
               /\ pc' = "done"
               /\ UNCHANGED <<output, log>>
           ELSE
               /\ ret' = ret
               /\ pc' = "init2"
               /\ output' = Append(output,
                                   write_success_result(cast.val.id, create_server_capabilities))
               /\ log' = Append(log, WriteEvent(Len(output) + 1))
    /\ message' = None
    /\ UNCHANGED <<ctx, reader, nread, headerVars, codecVars, castVars>>

\* initialize(): the second message must be the `initialized` notification;
\* then start() runs `ServerContext::new()`
InitializedNotification ==
    /\ pc = "init2_match"
    /\ LET msg == Unwrap(message)
           cast == into_notification_params(msg, "initialized")
       IN  IF msg.variant # "Notofication" THEN
               /\ ret' = Some(Failed("Expected initialized message"))
               /\ pc' = "done"
               /\ ctx' = ctx
           ELSE IF ~cast.ok THEN
               /\ ret' = Some(Failed(cast.err))
               /\ pc' = "done"
               /\ ctx' = ctx
           ELSE
               /\ ret' = ret
               /\ pc' = "read"
               /\ ctx' = Some(ServerContext_new)
    /\ message' = None
    /\ UNCHANGED <<reader, nread, output, log, headerVars, codecVars, castVars>>

\* the loop: `Message::Request(request) => handle_request(..)?`
HandleRequest ==
    /\ pc = "dispatch"
    /\ Unwrap(message).variant = "Request"
    /\ LET h == handle_request(Unwrap(ctx), Unwrap(message))
       IN  /\ ctx' = Some(h.ctx)
           /\ output' = output \o h.written
           /\ log' = log \o WriteEvents(Len(output), Len(h.written))
           /\ IF h.panic THEN pc' = "done" /\ ret' = Some(Panicked)
              ELSE IF ~h.res.ok THEN pc' = "done" /\ ret' = Some(Failed(h.res.err))
              ELSE pc' = "check" /\ ret' = ret
    /\ message' = None
    /\ UNCHANGED <<reader, nread, headerVars, codecVars, castVars>>

\* a loop that drops the handler's error: `let _ = handle_notification(..);`
HandleNotificationDroppingError ==
    /\ pc = "dispatch"
    /\ Unwrap(message).variant = "Notofication"
    /\ LET h == handle_notification(Unwrap(ctx), Unwrap(message))
       IN  /\ ctx' = Some(h.ctx)
           /\ output' = output \o h.written
           /\ log' = log \o WriteEvents(Len(output), Len(h.written))
           /\ IF h.panic THEN pc' = "done" /\ ret' = Some(Panicked)
              ELSE pc' = "check" /\ ret' = ret
    /\ message' = None
    /\ UNCHANGED <<reader, nread, headerVars, codecVars, castVars>>

\* the loop: `Message::Notofication(notification) => handle_notification(..)?`
HandleNotification ==
    /\ pc = "dispatch"
    /\ Unwrap(message).variant = "Notofication"
    /\ LET h == handle_notification(Unwrap(ctx), Unwrap(message))
       IN  /\ ctx' = Some(h.ctx)
           /\ output' = output \o h.written
           /\ log' = log \o WriteEvents(Len(output), Len(h.written))
           /\ IF h.panic THEN pc' = "done" /\ ret' = Some(Panicked)
              ELSE IF ~h.res.ok THEN pc' = "done" /\ ret' = Some(Failed(h.res.err))
              ELSE pc' = "check" /\ ret' = ret
    /\ message' = None
    /\ UNCHANGED <<reader, nread, headerVars, codecVars, castVars>>

\* the loop: `_ => unimplemented!()` for a Response
HandleResponse ==
    /\ pc = "dispatch"
    /\ Unwrap(message).variant = "Response"
    /\ pc' = "done"
    /\ ret' = Some(Panicked)
    /\ message' = None
    /\ UNCHANGED <<ctx, reader, nread, output, log, headerVars, codecVars, castVars>>

\* a loop that only stops on a graceful exit
CheckExitGracefulOnly ==
    /\ pc = "check"
    /\ IF Unwrap(ctx).exit_code = Some(0)
       THEN pc' = "done" /\ ret' = Some(Returned(0))
       ELSE pc' = "read" /\ ret' = ret
    /\ UNCHANGED <<ctx, message, reader, nread, output, log, headerVars, codecVars, castVars>>

\* the loop: `if let Some(exit_code) = ctx.exit_code { return Ok(exit_code); }`
CheckExit ==
    /\ pc = "check"
    /\ IF IsSome(Unwrap(ctx).exit_code)
       THEN pc' = "done" /\ ret' = Some(Returned(Unwrap(Unwrap(ctx).exit_code)))
       ELSE pc' = "read" /\ ret' = ret
    /\ UNCHANGED <<ctx, message, reader, nread, output, log, headerVars, codecVars, castVars>>

Next ==
    \/ ReadMessage
    \/ InitializeRequest
    \/ InitializedNotification
    \/ HandleRequest
    \/ HandleNotification
    \/ HandleResponse
    \/ CheckExit

Spec == Init /\ [][Next]_vars

(***************************************************************************)
(* Specification of write_message followed by read_message, as a function  *)
(* of the Message written.                                                 *)
(***************************************************************************)
Values == {Null} \cup {Atom(t) : t \in Subtrees}
OptionValues == {None} \cup {Some(v) : v \in Values}
ResponseErrors ==
    {ResponseError(ErrorCodes[c], m, d) :
        c \in {"ServerNotInitialized", "MethodNotFound"}, m \in Messages,
        d \in {None, Some(Atom(ParamsEmpty))}}
OptionErrors == {None} \cup {Some(e) : e \in ResponseErrors}

RoundTripMessages ==
    {RequestMessage(id, m, p) : id \in Ids, m \in Methods, p \in Values}
    \cup {ResponseMessage(id, r, e) : id \in Ids, r \in OptionValues, e \in OptionErrors}
    \cup {NotificationMessage(m, p) : m \in Methods, p \in Values}

InitCodec ==
    /\ rt_message \in {Some(m) : m \in RoundTripMessages}
    /\ rt_wire = <<>>
    /\ rt_result = None
    /\ SessionIdle
    /\ HeaderIdle
    /\ CastIdle

WriteMessage ==
    /\ rt_wire = <<>>
    /\ rt_wire' = write_message(ser_Message(Unwrap(rt_message)))
    /\ UNCHANGED <<rt_message, rt_result, sessionVars, headerVars, castVars>>

ReadBack ==
    /\ rt_wire # <<>>
    /\ rt_result = None
    /\ rt_result' = Some(read_message(rt_wire).res)
    /\ UNCHANGED <<rt_message, rt_wire, sessionVars, headerVars, castVars>>

NextCodec == WriteMessage \/ ReadBack

SpecCodec == InitCodec /\ [][NextCodec]_vars

(***************************************************************************)
(* Specification of the method / shape check, as a function of the decoded *)
(* message and of the method descriptor R (or N) the caller names.         *)
(***************************************************************************)
RequestMethods == {"initialize", "shutdown"}
NotificationMethods ==
    {"initialized", "exit", "textDocument/didOpen", "textDocument/didChange"}

CastInputs ==
    {[msg |-> RequestMessage(id, m, p), METHOD |-> e] :
        id \in Ids, m \in Methods, p \in Values, e \in RequestMethods}
    \cup {[msg |-> NotificationMessage(m, p), METHOD |-> e] :
        m \in Methods, p \in Values, e \in NotificationMethods}

InitCast ==
    /\ cast_input \in {Some(i) : i \in CastInputs}
    /\ cast_result = None
    /\ SessionIdle
    /\ HeaderIdle
    /\ CodecIdle

CastRequest ==
    /\ cast_result = None
    /\ Unwrap(cast_input).msg.variant = "Request"
    /\ cast_result' = Some(into_request_id_params(Unwrap(cast_input).msg,
                                                  Unwrap(cast_input).METHOD))
    /\ UNCHANGED <<cast_input, sessionVars, headerVars, codecVars>>

CastNotification ==
    /\ cast_result = None
    /\ Unwrap(cast_input).msg.variant = "Notofication"
    /\ cast_result' = Some(into_notification_params(Unwrap(cast_input).msg,
                                                    Unwrap(cast_input).METHOD))
    /\ UNCHANGED <<cast_input, sessionVars, headerVars, codecVars>>

NextCast == CastRequest \/ CastNotification

SpecCast == InitCast /\ [][NextCast]_vars

(***************************************************************************)
(* Specification of read_message as a function of the payload: objects     *)
(* that carry any choice of the members id, method, params, result and     *)
(* error, with usable and unusable values, and payloads that are no object *)
(***************************************************************************)
Absent == <<>>
OptionalMembers(key, values) == {Absent} \cup {<<<<key, v>>>> : v \in values}

WellFormedError ==
    ser_ResponseError(ResponseError_new("MethodNotFound", "Unexpected initialize message"))

DecodePayloads ==
    {Obj(<<<<"jsonrpc", Atom(Quote("2.0"))>>>> \o id \o method \o params \o result \o error) :
        id \in OptionalMembers("id", {Atom("1"), Atom("-1"), Atom(Quote("x")), Null}),
        method \in OptionalMembers("method", {Atom(Quote("shutdown")), Atom("1")}),
        params \in OptionalMembers("params", {Null, Atom(ParamsEmpty)}),
        result \in OptionalMembers("result", {Null, Atom(ParamsEmpty)}),
        error \in OptionalMembers("error", {Null, WellFormedError, Atom("1"),
                                             Obj(<<<<"code", Atom("1")>>>>)})}
    \cup {Null, Atom("1"), Atom(Quote("shutdown"))}

DecodeFrames == {ClientFrame(payload) : payload \in DecodePayloads} \cup {GarbageFrame}

InitDecode ==
    /\ rt_message = None
    /\ rt_wire \in DecodeFrames
    /\ rt_result = None
    /\ SessionIdle
    /\ HeaderIdle
    /\ CastIdle

DecodePayload ==
    /\ rt_message = None
    /\ rt_result = None
    /\ rt_result' = Some(read_message(rt_wire).res)
    /\ UNCHANGED <<rt_message, rt_wire, sessionVars, headerVars, castVars>>

NextDecode == DecodePayload

SpecDecode == InitDecode /\ [][NextDecode]_vars

(***************************************************************************)
(* Specification of the three writers built on write_message, called one   *)
(* after the other on the same writer.                                     *)
(***************************************************************************)
InitWrite ==
    /\ SessionIdle
    /\ HeaderIdle
    /\ CodecIdle
    /\ CastIdle

WriteSuccessResponse ==
    /\ Len(output) < MaxWrites
    /\ \E id \in Ids, result \in Values :
         output' = Append(output, write_success_response(id, result))
    /\ log' = Append(log, WriteEvent(Len(output) + 1))
    /\ UNCHANGED <<pc, ctx, message, reader, nread, ret, headerVars, codecVars, castVars>>

WriteErrorResponse ==
    /\ Len(output) < MaxWrites
    /\ \E id \in Ids, error \in ResponseErrors :
         output' = Append(output, write_error_response(id, error))
    /\ log' = Append(log, WriteEvent(Len(output) + 1))
    /\ UNCHANGED <<pc, ctx, message, reader, nread, ret, headerVars, codecVars, castVars>>

WriteNotification ==
    /\ Len(output) < MaxWrites
    /\ \E method \in Methods, params \in {Null, Atom(ParamsEmpty)} :
         output' = Append(output, write_notification(method, params))
    /\ log' = Append(log, WriteEvent(Len(output) + 1))
    /\ UNCHANGED <<pc, ctx, message, reader, nread, ret, headerVars, codecVars, castVars>>

NextWrite == WriteSuccessResponse \/ WriteErrorResponse \/ WriteNotification

SpecWrite == InitWrite /\ [][NextWrite]_vars

(***************************************************************************)
(* Properties.                                                             *)
(***************************************************************************)
State == Unwrap(ctx).state
ExitCode == Unwrap(ctx).exit_code
Pending == Unwrap(message)

\* the JSON body of a frame on the wire, and what a response frame says
WireBody(frame) == Unwrap(from_slice_value(read_header(frame).rest))
ResponseId(frame) == Unwrap(de_u64(Unwrap(Field(WireBody(frame), "id"))))

IsSuccessResponse(frame, id, result) ==
    /\ Field(WireBody(frame), "jsonrpc") = Some(Atom(Quote("2.0")))
    /\ Field(WireBody(frame), "id") = Some(Atom(ToString(id)))
    /\ Field(WireBody(frame), "result") = Some(result)
    /\ Field(WireBody(frame), "error") = None

IsErrorResponse(frame, id, code) ==
    /\ Field(WireBody(frame), "jsonrpc") = Some(Atom(Quote("2.0")))
    /\ Field(WireBody(frame), "id") = Some(Atom(ToString(id)))
    /\ Field(WireBody(frame), "result") = None
    /\ Field(WireBody(frame), "error") # None
    /\ Field(Unwrap(Field(WireBody(frame), "error")), "code") = Some(Atom(ToString(code)))

\* a shutdown request was answered earlier: a success response with a null
\* result follows the handshake's reply on the output
ShutdownHandled ==
    \E i \in 2..Len(output) : Field(WireBody(output[i]), "result") = Some(Null)

PendingNotification(method) ==
    pc = "dispatch" /\ Pending.variant = "Notofication" /\ Pending.method = method

PendingRequest(method) ==
    pc = "dispatch" /\ Pending.variant = "Request" /\ Pending.method = method

\* C1: when the main loop handles an `exit` notification, exit_code becomes 0
\* if the state is ShuttingDown (a shutdown request was handled earlier) and 1
\* if it is still Initialized, and start() returns exactly that exit code.
C1_ExitCode ==
    [][ /\ PendingNotification("exit") =>
              /\ State \in {"Initialized", "ShuttingDown"}
              /\ (State = "ShuttingDown") = ShutdownHandled
              /\ ctx' = Some([state |-> State,
                              exit_code |-> Some(IF State = "ShuttingDown" THEN 0 ELSE 1)])
              /\ pc' = "check"
        /\ (pc = "check" /\ IsSome(ExitCode)) => ret' = Some(Returned(Unwrap(ExitCode)))
        /\ (ret' # None /\ Unwrap(ret').kind = "Ok") =>
              /\ ctx' # None
              /\ ret' = Some(Returned(Unwrap(Unwrap(ctx').exit_code)))
      ]_vars

C1_Witness == ret = Some(Returned(0)) /\ State = "ShuttingDown"

\* C2: a `shutdown` request handled in the main loop succeeds from either
\* state: the state is ShuttingDown afterwards, exit_code stays unset, and one
\* success response with a null result and the request's id is written.
C2_Shutdown ==
    [][ PendingRequest("shutdown") =>
            /\ ctx' = Some([state |-> "ShuttingDown", exit_code |-> None])
            /\ Len(output') = Len(output) + 1
            /\ SubSeq(output', 1, Len(output)) = output
            /\ IsSuccessResponse(output'[Len(output')], Pending.id, Null)
            /\ pc' = "check"
            /\ ret' = None
      ]_vars

C2_Witness ==
    /\ pc = "check"
    /\ State = "ShuttingDown"
    /\ Len(output) = 3
    /\ Field(WireBody(output[2]), "result") = Some(Null)
    /\ Field(WireBody(output[3]), "result") = Some(Null)

\* C3: an `initialize` request read in the main loop, in either state, gets an
\* error response with its id and code ServerNotInitialized (-32002), never a
\* success; state and exit_code are unchanged and the loop continues.
C3_InitializeRejected ==
    [][ PendingRequest("initialize") =>
            /\ ctx' = ctx
            /\ ExitCode = None
            /\ Len(output') = Len(output) + 1
            /\ SubSeq(output', 1, Len(output)) = output
            /\ IsErrorResponse(output'[Len(output')], Pending.id, -32002)
            /\ pc' = "check"
            /\ ret' = None
      ]_vars

C3_Witness ==
    /\ pc = "check"
    /\ State = "ShuttingDown"
    /\ Len(output) = 3
    /\ \E id \in Ids : IsErrorResponse(output[3], id, -32002)

\* C4: the handshake succeeds only for an `initialize` request followed by an
\* `initialized` notification.  Any other first or second message makes
\* start() fail with a ProtocolError; the ServerContext is then never created
\* and no main-loop message is dispatched.
IsInitializeRequest(e) == e.kind = "Request" /\ e.method = "initialize"
IsInitializedNotification(e) == e.kind = "Notofication" /\ e.method = "initialized"
HandshakeFailed == pc = "done" /\ ret # None /\ Unwrap(ret).kind = "Err" /\ ctx = None

C4_Handshake ==
    /\ (ctx # None \/ pc \in {"read", "dispatch", "check"}) =>
          /\ Len(log) >= 3
          /\ log[1].op = "read" /\ IsInitializeRequest(log[1])
          /\ log[2].op = "write"
          /\ log[3].op = "read" /\ IsInitializedNotification(log[3])
    /\ pc \in {"dispatch", "check"} => ctx # None
    /\ (Len(log) >= 1 /\ log[1].kind # "error" /\ ~IsInitializeRequest(log[1])) =>
          \/ pc = "init1_match"
          \/ HandshakeFailed /\ nread = 1 /\ output = <<>>
    /\ (Len(log) >= 3 /\ log[3].kind # "error" /\ ~IsInitializedNotification(log[3])) =>
          \/ pc = "init2_match"
          \/ HandshakeFailed /\ nread = 2 /\ Len(output) = 1

C4_Witness ==
    /\ HandshakeFailed
    /\ nread = 2
    /\ log[3].kind = "Notofication"
    /\ log[3].method = "exit"

\* C5: the loop ends exactly when exit_code is set at the end of an iteration:
\* with exit_code set start() returns and nothing more is read or written;
\* with exit_code unset the loop goes back to reading.
C5_LoopTermination ==
    [][ /\ pc = "check" =>
              IF IsSome(ExitCode)
              THEN pc' = "done" /\ ret' = Some(Returned(Unwrap(ExitCode)))
              ELSE pc' = "read" /\ ret' = None
        /\ (ctx # None /\ IsSome(ExitCode)) =>
              /\ nread' = nread
              /\ reader' = reader
              /\ output' = output
        /\ (ret = None /\ ret' # None /\ Unwrap(ret').kind = "Ok") =>
              pc = "check" /\ IsSome(ExitCode)
      ]_vars

C5_Witness ==
    /\ pc = "done"
    /\ ret = Some(Returned(1))
    /\ nread = 4
    /\ Len(output) = 2

\* C6: every request with a recognized method read in the main loop gets
\* exactly one response, with its id, written before the next frame is read;
\* so the response ids follow the order of the requests and at most one
\* request is in flight.
IsMainLoopRequest(e) ==
    /\ e.op = "read"
    /\ e.n > 2
    /\ e.kind = "Request"
    /\ e.method \in {"initialize", "shutdown"}

C6_OneResponsePerRequest ==
    LET requests == SelectSeq(log, IsMainLoopRequest)
        answered == Len(output) - 1
    IN  /\ \A i \in 1..Len(log) :
              IsMainLoopRequest(log[i]) =>
                  IF i = Len(log) THEN pc = "dispatch" /\ answered = Len(requests) - 1
                  ELSE /\ log[i + 1].op = "write"
                       /\ ResponseId(output[log[i + 1].n]) = log[i].id
                       /\ i + 2 <= Len(log) => log[i + 2].op = "read"
        /\ ctx # None =>
              /\ answered \in {Len(requests) - 1, Len(requests)}
              /\ \A k \in 1..answered : ResponseId(output[k + 1]) = requests[k].id

C6_Witness ==
    /\ pc = "check"
    /\ Len(output) = 3
    /\ ResponseId(output[2]) = 2
    /\ ResponseId(output[3]) = 1

\* C7: handling a notification writes nothing: the `initialized` notification
\* of the handshake and every notification of the main loop, whether its
\* handler succeeds or fails, leave the written frames as they were.
C7_NotificationsSilent ==
    [][ (pc \in {"init2_match", "dispatch"} /\ Pending.variant = "Notofication") =>
            output' = output
      ]_vars

C7_Witness ==
    /\ ctx # None
    /\ ret = Some(Failed("Failed to parse params"))
    /\ log[Len(log)].op = "read"
    /\ log[Len(log)].method = "textDocument/didOpen"
    /\ Len(output) = 2

(***************************************************************************)
(* Properties of read_header, stated on the lines the block was built of.  *)
(***************************************************************************)
HeaderLinesIn == hdr_input.lines
HeaderResult == Unwrap(hdr_result)

\* "Content-Length" in some letter casing
ContentLengthNames == {NameContentLength, NameLowerCase, NameMixedCase}

\* the decimal integers the header lines carry, with the number each denotes
DecimalLiterals == {[text |-> <<"0">>, n |-> 0], [text |-> <<"7">>, n |-> 7],
                    [text |-> <<"4", "2">>, n |-> 42]}
IsDecimal(v) == v # <<>> /\ \A i \in 1..Len(v) : v[i] \in {"0","1","2","3","4","5","6","7","8","9"}
Denoted(v) == (CHOOSE d \in DecimalLiterals : d.text = v).n
\* what str::parse::<usize> takes for an unsigned integer: digits, or "+" and digits
\* and no more than nineteen of them, which always fit the 64 bits of a usize
IsUnsigned(v) ==
    \/ IsDecimal(v) /\ Len(v) <= 19
    \/ Len(v) >= 2 /\ v[1] = "+" /\ IsDecimal(Tail(v)) /\ Len(v) <= 20

HasSeparator(v) == \E i \in 1..(Len(v) - 1) : v[i] = ":" /\ v[i + 1] = " "
Terminated(l) == l.term \in {CRLF, LF}

\* `Name: Value` with exactly one ": "
WellFormed(l) ==
    /\ l.name # <<>>
    /\ l.sep = ColonSpace
    /\ l.value # <<>>
    /\ ~HasSeparator(l.value)
LengthLine(l) ==
    /\ WellFormed(l)
    /\ l.name \in ContentLengthNames
    /\ \E d \in DecimalLiterals : d.text = l.value
IgnoredLine(l) == WellFormed(l) /\ l.name \notin ContentLengthNames
BadLengthLine(l) == WellFormed(l) /\ l.name \in ContentLengthNames /\ ~IsUnsigned(l.value)
Rejected(l) == ~WellFormed(l) \/ BadLengthLine(l)

\* C8: for a header block that ends with the blank CRLF line and holds a line
\* `<name>: N`, <name> being Content-Length in any casing and N a decimal
\* integer, read_header returns content_length = N; the other well-formed
\* lines, with unrecognized names, do not change that.
C8_ContentLength ==
    (hdr_result # None /\ hdr_input.ending = CRLF) =>
        \A i \in 1..Len(HeaderLinesIn) :
            ( /\ LengthLine(HeaderLinesIn[i])
              /\ \A j \in 1..Len(HeaderLinesIn) :
                    /\ Terminated(HeaderLinesIn[j])
                    /\ j # i => IgnoredLine(HeaderLinesIn[j]) )
            => /\ HeaderResult.ok
               /\ HeaderResult.content_length = Denoted(HeaderLinesIn[i].value)

C8_Witness ==
    /\ hdr_result # None
    /\ hdr_input.ending = CRLF
    /\ Len(HeaderLinesIn) = 2
    /\ IgnoredLine(HeaderLinesIn[1]) /\ Terminated(HeaderLinesIn[1])
    /\ LengthLine(HeaderLinesIn[2]) /\ Terminated(HeaderLinesIn[2])
    /\ HeaderLinesIn[2].name = NameMixedCase
    /\ HeaderResult.ok

\* C9: read_header returns no Header and fails with InvalidInput when a
\* non-empty line does not split on ": " into exactly two fields (whatever
\* its name), with InvalidInput when a Content-Length value is not an
\* unsigned integer, with InvalidInput when the blank line comes and no
\* Content-Length line was seen, and with UnexpectedEof when the stream ends
\* before the blank line.
EveryLineTerminated ==
    \A i \in 1..Len(HeaderLinesIn) :
        Terminated(HeaderLinesIn[i]) \/ (i = Len(HeaderLinesIn) /\ hdr_input.ending = <<>>)
SomeRejected == \E i \in 1..Len(HeaderLinesIn) : Rejected(HeaderLinesIn[i])
SomeLength == \E i \in 1..Len(HeaderLinesIn) : LengthLine(HeaderLinesIn[i])
FailsWith(kind) == ~HeaderResult.ok /\ HeaderResult.kind = kind

C9_HeaderErrors ==
    (hdr_result # None /\ EveryLineTerminated) =>
        /\ SomeRejected => FailsWith("InvalidInput")
        /\ (~SomeRejected /\ hdr_input.ending \in {LF, <<"\r">>}) => FailsWith("InvalidInput")
        /\ (~SomeRejected /\ hdr_input.ending = CRLF /\ ~SomeLength
                /\ \A i \in 1..Len(HeaderLinesIn) : IgnoredLine(HeaderLinesIn[i]))
              => FailsWith("InvalidInput")
        /\ (~SomeRejected /\ hdr_input.ending = <<>>) => FailsWith("UnexpectedEof")

C9_Witness ==
    /\ hdr_result # None
    /\ hdr_input.ending = CRLF
    /\ Len(HeaderLinesIn) = 2
    /\ LengthLine(HeaderLinesIn[1]) /\ Terminated(HeaderLinesIn[1])
    /\ HeaderLinesIn[2].name = NameX /\ HasSeparator(HeaderLinesIn[2].value)
    /\ FailsWith("InvalidInput")

(***************************************************************************)
(* Properties of the codec.                                                *)
(***************************************************************************)
\* C10: round trip: read_message applied to the bytes write_message emits for
\* a Message M returns a value equal to M, for requests, responses (a null
\* result included) and notifications.
C10_RoundTrip ==
    rt_result # None => Unwrap(rt_result) = Ok(Unwrap(rt_message))

(***************************************************************************)
(* The method / shape check                                                *)
(***************************************************************************)
CastMsg == Unwrap(cast_input).msg
CastExpected == Unwrap(cast_input).METHOD
CastReturned == Unwrap(cast_result)

\* C11: the method / shape check fails with a ProtocolError for every message
\* whose method differs from the expected one, whether or not its params
\* decode into the expected shape; it succeeds only when the method matches
\* and the params decode, and then returns the params (and, for a request,
\* the id) of the message unchanged.
C11_MethodCheck ==
    cast_result # None =>
        /\ CastMsg.method # CastExpected =>
              ~CastReturned.ok /\ CastReturned.err = "Expected method"
        /\ CastReturned.ok <=>
              (CastMsg.method = CastExpected /\ from_value(CastExpected, CastMsg.params))
        /\ CastReturned.ok =>
              IF CastMsg.variant = "Request"
              THEN CastReturned.val = [id |-> CastMsg.id, params |-> CastMsg.params]
              ELSE CastReturned.val = CastMsg.params

\* a request with another method whose params would decode was rejected
C11_Witness ==
    /\ cast_result # None
    /\ CastMsg.variant = "Request"
    /\ CastMsg.method # CastExpected
    /\ from_value(CastExpected, CastMsg.params)
    /\ ~CastReturned.ok

(***************************************************************************)
(* Frames on the wire                                                      *)
(***************************************************************************)
\* where the first blank line (CRLF CRLF) of a frame starts, 0 when there is none
BlankLineAt(frame) ==
    LET hits == {i \in 1..(Len(frame) - 3) : SubSeq(frame, i, i + 3) = CRLF \o CRLF}
    IN  IF hits = {} THEN 0 ELSE CHOOSE i \in hits : \A j \in hits : i <= j

FrameHeaderLine(frame) == SubSeq(frame, 1, BlankLineAt(frame) - 1)
FrameBody(frame) == SubSeq(frame, BlankLineAt(frame) + 4, Len(frame))
FrameDigits(frame) ==
    SubSeq(FrameHeaderLine(frame), Len(NameContentLength) + Len(ColonSpace) + 1,
           Len(FrameHeaderLine(frame)))

\* `Content-Length: N\r\n\r\n` then a body of exactly N bytes, N in plain
\* decimal, the body one JSON object stamped "jsonrpc":"2.0"
Framed(frame) ==
    /\ BlankLineAt(frame) > Len(NameContentLength) + Len(ColonSpace)
    /\ SubSeq(frame, 1, Len(NameContentLength) + Len(ColonSpace))
         = NameContentLength \o ColonSpace
    /\ FrameDigits(frame) # <<>>
    /\ \A i \in 1..Len(FrameDigits(frame)) : IndexIn(FrameDigits(frame)[i], Digits) # 0
    /\ Len(FrameDigits(frame)) > 1 => FrameDigits(frame)[1] # "0"
    /\ DigitsValue(FrameDigits(frame), 0) = Some(ByteLen(FrameBody(frame)))
    /\ from_slice_value(FrameBody(frame)) # None
    /\ Field(Unwrap(from_slice_value(FrameBody(frame))), "jsonrpc")
         = Some(Atom(Quote("2.0")))

\* C12: every frame the writers emit is the header `Content-Length: N` and a
\* blank line followed by the body, N being the exact byte length of the
\* body, and it has reached the output whole when the writer returns: the
\* output is at every moment a sequence of complete frames, one per write.
C12_Framing ==
    /\ \A i \in 1..Len(output) : Framed(output[i])
    /\ Len(output) = Len(log)

\* a success response with a three-digit length and a notification were written
C12_Witness ==
    /\ Len(output) = 2
    /\ ByteLen(FrameBody(output[1])) >= 100
    /\ Field(Unwrap(from_slice_value(FrameBody(output[1]))), "result") # None
    /\ Field(Unwrap(from_slice_value(FrameBody(output[2]))), "method") # None

(***************************************************************************)
(* Responses                                                               *)
(***************************************************************************)
\* C13: every response has exactly one of `result` and `error` populated:
\* every response frame the server has written, and every ResponseMessage
\* that decoding an inbound frame has produced.
C13_ExactlyOne ==
    /\ \A i \in 1..Len(output) :
          (Field(WireBody(output[i]), "result") = None)
              # (Field(WireBody(output[i]), "error") = None)
    /\ (message # None /\ Pending.variant = "Response") =>
          (Pending.result = None) # (Pending.error = None)

(***************************************************************************)
(* Truncated frames                                                        *)
(***************************************************************************)
\* the read that a step has just added to the history is of a truncated frame
ReadsTruncated ==
    /\ pc \in {"init1", "init2", "read"}
    /\ Len(log') = Len(log) + 1
    /\ log'[Len(log')].short

\* C14: when the header announces N payload bytes and the stream ends before
\* N bytes have come, read_message fails with the I/O error of the short
\* read, in the handshake and in the main loop alike, and start() returns
\* that error: nothing is written, the context is untouched, and no step
\* (no wait, no read) follows the return.
C14_TruncatedFrame ==
    [][ /\ pc # "done"
        /\ ReadsTruncated =>
              /\ ret' = Some(Failed("UnexpectedEof"))
              /\ pc' = "done"
              /\ output' = output
              /\ ctx' = ctx
              /\ message' = message ]_vars

\* the main loop has read a frame cut short and start() has returned the error
C14_Witness ==
    /\ pc = "done"
    /\ ctx # None
    /\ log # <<>>
    /\ log[Len(log)].op = "read"
    /\ log[Len(log)].short
    /\ ret = Some(Failed("UnexpectedEof"))

(***************************************************************************)
(* Errors of the notification handlers                                     *)
(***************************************************************************)
\* the main loop is about to dispatch a notification whose handler returns Err
NotificationHandlerFails ==
    /\ pc = "dispatch"
    /\ Pending.variant = "Notofication"
    /\ ~handle_notification(Unwrap(ctx), Pending).panic
    /\ ~handle_notification(Unwrap(ctx), Pending).res.ok

PendingUnhandled ==
    /\ pc = "dispatch"
    /\ \/ Pending.variant = "Request" /\ Pending.method \notin {"initialize", "shutdown"}
       \/ /\ Pending.variant = "Notofication"
          /\ Pending.method \notin {"exit", "textDocument/didOpen", "textDocument/didChange"}
       \/ Pending.variant = "Response"

\* C16: in the main loop a request with a method other than initialize and
\* shutdown, a notification with a method other than exit, didOpen and
\* didChange, and any response are fatal: the session aborts there, no frame
\* is written for the message (no MethodNotFound reply), state and exit_code
\* stay as they were, and nothing is read afterwards.
C16_UnhandledIsFatal ==
    [][ /\ pc # "done"
        /\ PendingUnhandled =>
              /\ pc' = "done"
              /\ ret' = Some(Panicked)
              /\ output' = output
              /\ ctx' = ctx
              /\ nread' = nread
              /\ reader' = reader ]_vars

\* a request with an unknown method aborted the session after the handshake,
\* with the handshake's reply the only frame on the output
C16_Witness ==
    /\ pc = "done"
    /\ ret = Some(Panicked)
    /\ ctx = Some(ServerContext_new)
    /\ Len(output) = 1
    /\ log[Len(log)].op = "read"
    /\ log[Len(log)].kind = "Request"
    /\ log[Len(log)].method = "$/unknown"

(***************************************************************************)
(* Who writes the ServerContext                                            *)
(***************************************************************************)
\* C17: once the ServerContext exists only the shutdown and exit handlers
\* change it: handling a shutdown request changes `state` alone, handling an
\* exit notification changes `exit_code` alone, and every other step (an
\* initialize request, didOpen and didChange notifications, reads, the exit
\* check) leaves both fields as they were.
C17_ContextWriters ==
    [][ ctx # None =>
          /\ ctx' # None
          /\ PendingRequest("shutdown") => Unwrap(ctx').exit_code = ExitCode
          /\ PendingNotification("exit") => Unwrap(ctx').state = State
          /\ ~(PendingRequest("shutdown") \/ PendingNotification("exit")) => ctx' = ctx
      ]_vars

\* after a shutdown, a didOpen notification was handled and left the context alone
C17_Witness ==
    /\ pc = "check"
    /\ State = "ShuttingDown"
    /\ ExitCode = None
    /\ log[Len(log)].op = "read"
    /\ log[Len(log)].method = "textDocument/didOpen"

(***************************************************************************)
(* What the handshake writes, and when                                     *)
(***************************************************************************)
\* the history starts with the read of an initialize request and the write of
\* the first output frame, a success response with that request's id and the
\* capability descriptor
RepliedToInitialize ==
    /\ Len(log) >= 2
    /\ log[1].op = "read" /\ IsInitializeRequest(log[1])
    /\ log[2] = WriteEvent(1)
    /\ Len(output) >= 1
    /\ IsSuccessResponse(output[1], log[1].id, create_server_capabilities)

\* C18: the handshake writes exactly one frame, the success response with the
\* id of the initialize request and the fixed capability descriptor, after
\* the first message is read and before the second is read; when the first
\* message is rejected nothing has been written, and when the second is
\* rejected that response is the only frame written.
C18_HandshakeOrdering ==
    /\ pc \in {"init1", "init1_match"} => output = <<>>
    /\ pc \in {"init2", "init2_match"} => RepliedToInitialize /\ Len(output) = 1
    /\ pc = "init2" => Len(log) = 2
    /\ ctx # None =>
          /\ RepliedToInitialize
          /\ Len(log) >= 3
          /\ log[3].op = "read" /\ IsInitializedNotification(log[3])
          /\ pc = "read" /\ nread = 2 => Len(output) = 1 /\ Len(log) = 3
    /\ (ctx = None /\ pc = "done") =>
          IF nread = 1
          THEN output = <<>> /\ Len(log) = 1
          ELSE nread = 2 /\ RepliedToInitialize /\ Len(output) = 1 /\ Len(log) = 3

\* the handshake has just completed for an initialize request with id 2
C18_Witness ==
    /\ pc = "read"
    /\ nread = 2
    /\ ctx = Some(ServerContext_new)
    /\ log[1].id = 2
    /\ IsSuccessResponse(output[1], 2, create_server_capabilities)
    /\ Len(output) = 1

(***************************************************************************)
(* The session state                                                       *)
(***************************************************************************)
\* a context whose exit code agrees with its state
Consistent(c) ==
    /\ c.state \in {"Initialized", "ShuttingDown"}
    /\ c.exit_code \in {None, Some(0), Some(1)}
    /\ c.exit_code = Some(0) => c.state = "ShuttingDown"
    /\ c.exit_code = Some(1) => c.state = "Initialized"

\* C20: the context is created Initialized with exit_code unset; at every
\* moment exit_code is unset, 0 or 1, 0 only in ShuttingDown and 1 only in
\* Initialized; the state never goes back from ShuttingDown to Initialized;
\* and once exit_code is set neither field changes again.
C20_SessionState ==
    [][ /\ (ctx = None /\ ctx' # None) =>
              ctx' = Some([state |-> "Initialized", exit_code |-> None])
        /\ ctx # None =>
              /\ Consistent(Unwrap(ctx))
              /\ ctx' # None
              /\ Consistent(Unwrap(ctx'))
              /\ State = "ShuttingDown" => Unwrap(ctx').state = "ShuttingDown"
              /\ ExitCode # None => ctx' = ctx
      ]_vars

\* an exit without shutdown has set exit_code 1 and the loop is about to return
C20_Witness ==
    /\ pc = "check"
    /\ State = "Initialized"
    /\ ExitCode = Some(1)
    /\ Len(output) = 1

(***************************************************************************)
(* Which variant a payload decodes to                                      *)
(***************************************************************************)
Payload == from_slice_value(FrameBody(rt_wire))
IsObject == Payload # None /\ Unwrap(Payload).k = "obj"
Member(key) == Field(Unwrap(Payload), key)
Decoded == Unwrap(rt_result)

UintTexts == {ToString(n) : n \in 0..(MaxId + 1)}
IntTexts == {ToString(n) : n \in Numbers}
StringTexts == {Quote(str) : str \in Strings}

HasUintId == Member("id") # None /\ Unwrap(Member("id")).a \in UintTexts
HasStringMethod == Member("method") # None /\ Unwrap(Member("method")).a \in StringTexts
HasParams == Member("params") # None

\* the `error` member is absent, null or an object with an integer `code`
\* and a string `message`
ErrorUsable ==
    \/ Member("error") = None
    \/ Member("error") = Some(Null)
    \/ /\ Unwrap(Member("error")).k = "obj"
       /\ Field(Unwrap(Member("error")), "code") # None
       /\ Unwrap(Field(Unwrap(Member("error")), "code")).a \in IntTexts
       /\ Field(Unwrap(Member("error")), "message") # None
       /\ Unwrap(Field(Unwrap(Member("error")), "message")).a \in StringTexts

DecodedAs(variant) == Decoded.ok /\ Decoded.val.variant = variant

====
